---------------------------- MODULE Spec2Model ----------------------------
(***************************************************************************)
(* Model of the Sensor Watch goal-tracker ("tally") face:                  *)
(*   src/movement/watch_faces/tally_face/tally_face.c                      *)
(*                                                                         *)
(* The program state is state_t (one variable per field), the 8 backup     *)
(* bytes and the context pointer.  One action per host call: setup and     *)
(* one per event type of tally_face_loop.  History variables (marked       *)
(* "history") record what the last handler did; the program never reads    *)
(* them.                                                                   *)
(***************************************************************************)
EXTENDS Integers, Sequences, FiniteSets, TLC

VARIABLES
    \* state_t
    tally_a, tally_b, goal_a, goal_b,
    hold_sec_a, hold_sec_b, action_done_a, action_done_b,
    ms_clock, last_tap_ms, tap_count, last_gesture_ms,
    mode, get_sec_remaining,
    \* *context_ptr and the backup registers
    context, backup,
    \* history
    ev,         \* the last host call and its inputs
    ret,        \* what the last tally_face_loop call returned
    fired,      \* the tap handlers the last call invoked, in order
    writes,     \* the backup_write_u16 calls of the last call: <<lo_idx, v>>
    gest,       \* mode and countdown before and right after the tap phase of the last tick
    display,    \* what the last tick rendered
    run_a,      \* the current (or just completed) hold of LIGHT
    run_b,      \* the current (or just completed) hold of ALARM
    recent,     \* the last three whole-second ticks: clock, tap flags, handlers
    n_events    \* number of non-tick events handled so far

prog_vars == <<tally_a, tally_b, goal_a, goal_b, hold_sec_a, hold_sec_b,
               action_done_a, action_done_b, ms_clock, last_tap_ms, tap_count,
               last_gesture_ms, mode, get_sec_remaining>>
hist_vars == <<ev, ret, fired, writes, gest, display, run_a, run_b, recent, n_events>>
vars == <<prog_vars, context, backup, hist_vars>>

----------------------------------------------------------------------------
(* Program constants *)

BK_TALLY_A_LO == 0
BK_TALLY_A_HI == 1
BK_TALLY_B_LO == 2
BK_TALLY_B_HI == 3
BK_GOAL_A_LO == 4
BK_GOAL_A_HI == 5
BK_GOAL_B_LO == 6
BK_GOAL_B_HI == 7

GOAL_A_DEFAULT == 12
GOAL_B_DEFAULT == 4
MIN_GOAL == 1
MAX_GOAL_A == 999
MAX_GOAL_B == 99

INC_HOLD_SECONDS == 2
RESET_HOLD_SECONDS == 5
GET_SHOW_SECONDS == 3

TRIPLE_TAP_WINDOW_MS == 1500
TAP_DEBOUNCE_MS == 250

LIS2DW_TAP_SRC_SINGLE_TAP == 64
LIS2DW_TAP_SRC_DOUBLE_TAP == 32

TICK_MS == 1000

(* Integer widths *)
U8(x) == x % 256
U16(x) == x % 65536
\* uint32_t: x mod 2^32 for x < 2^32.  The checker's integers end at 2^31 - 1, so
\* a value of 2^31 or more stops the check with an overflow error instead of
\* being computed wrongly; the clock of a bounded session stays far below it.
U32(x) == IF x < 0 THEN x + 2147483647 + 2147483647 + 2 ELSE x

----------------------------------------------------------------------------
(* Bounds of the model *)

MaxTicks == 2       \* Spec: whole-second ticks per session
MaxEvents == 1      \* Spec: other events per session
HoldTicks == 7      \* SpecHold: whole-second ticks per session
HoldEvents == 1     \* SpecHold: other events per session
TapTicks == 5       \* SpecTap: whole-second ticks per session
GoalTicks == 6      \* SpecGoal: whole-second ticks per session
GoalEvents == 3     \* SpecGoal: other events per session
StoreTicks == 6     \* SpecStore: whole-second ticks per session
StoreEvents == 2    \* SpecStore: other events per session
TripleTicks == 9    \* SpecTriple: whole-second ticks per session
PhaseTicks == 3     \* SpecPhase: whole-second ticks per session
DeficitTicks == 1   \* SpecDeficit: whole-second ticks per session
FrameTicks == 7     \* SpecFrame: whole-second ticks per session
FrameEvents == 1    \* SpecFrame: other events per session
EventTicks == 6     \* SpecEvent: whole-second ticks per session
EventEvents == 2    \* SpecEvent: other events per session


----------------------------------------------------------------------------
(* Inputs the collaborators can deliver *)

NULL == "NULL"
ALLOCATED == "ALLOCATED"

Modes == {"MODE_NORMAL", "MODE_SHOW_GET", "MODE_SET_A", "MODE_SET_B"}

\* movement_get_local_time(): unavailable, or a calendar date
NoDate == [ok |-> FALSE, y |-> 0, m |-> 1, d |-> 1]
Date(y, m, d) == [ok |-> TRUE, y |-> y, m |-> m, d |-> d]
Dates == {NoDate, Date(2023, 4, 10), Date(2024, 2, 29)}

\* lis2dw_get_int_source(): the byte, with the two tap bits in every combination
IntSrcs == {0, LIS2DW_TAP_SRC_DOUBLE_TAP, LIS2DW_TAP_SRC_SINGLE_TAP,
            LIS2DW_TAP_SRC_DOUBLE_TAP + LIS2DW_TAP_SRC_SINGLE_TAP}

\* int_src & bit
HasBit(int_src, bit) == (int_src \div bit) % 2 = 1

\* The backup bytes that hold the four 16-bit values <<tally A, tally B, goal A, goal B>>
Image(ta, tb, ga, gb) ==
    [i \in 0..7 |->
        CASE i = BK_TALLY_A_LO -> ta % 256
          [] i = BK_TALLY_A_HI -> ta \div 256
          [] i = BK_TALLY_B_LO -> tb % 256
          [] i = BK_TALLY_B_HI -> tb \div 256
          [] i = BK_GOAL_A_LO -> ga % 256
          [] i = BK_GOAL_A_HI -> ga \div 256
          [] i = BK_GOAL_B_LO -> gb % 256
          [] OTHER -> gb \div 256]

\* Backup contents a session can start from: valid, at the limits, erased and corrupt
StoredImages ==
    { Image(50, 2, 12, 4),
      Image(2, 0, 12, 4),
      Image(998, 98, 998, 2),
      Image(0, 0, 0, 0),
      Image(1000, 100, 1000, 100),
      Image(65535, 65535, 65535, 65535) }

\* goals next to their limits, and goals the load replaces
GoalImages ==
    { Image(998, 98, 998, 2),
      Image(0, 0, 2, 98),
      Image(1000, 100, 1000, 100),
      Image(65535, 65535, 0, 0) }

\* valid values next to the limits, and erased storage
StoreImages ==
    { Image(998, 98, 998, 2),
      Image(50, 2, 2, 98),
      Image(65535, 65535, 0, 0) }

\* 16-bit values around every limit of the load, in both bytes
LoadValues == {0, 1, 2, 98, 99, 100, 255, 256, 998, 999, 1000, 65535}

LoadImages ==
    { Image(ta, tb, ga, gb) : ta \in LoadValues, tb \in LoadValues,
                              ga \in LoadValues, gb \in LoadValues }

\* tallies below, at and above the pro-rated goal
TapImages ==
    { Image(50, 2, 12, 4),
      Image(2, 0, 12, 4),
      Image(4, 4, 12, 4) }

\* tallies one below the pro-rated goal of day 10 of 30 (A: 4.00, B: 1.33)
PhaseImages ==
    { Image(3, 1, 12, 4),
      Image(50, 2, 12, 4) }

\* goals and tallies over their whole ranges, B always behind its goal
DeficitGoals == {1, 2, 3, 7, 12, 31, 365, 500, 998, 999}
DeficitTallies == {0, 1, 2, 3, 11, 12, 30, 219, 499, 998, 999}

DeficitImages ==
    { Image(ta, 0, ga, 99) : ta \in DeficitTallies, ga \in DeficitGoals }

\* every day of months of 28, 29, 30 and 31 days, with each case of the leap rule
DeficitMonths == {<<2023, 1>>, <<2023, 2>>, <<2024, 2>>, <<2023, 4>>, <<1900, 2>>, <<2000, 2>>}

DeficitDates ==
    { Date(ym[1], ym[2], d) : ym \in DeficitMonths, d \in 1..31 }

----------------------------------------------------------------------------
(* small helpers for backup u16 *)

backup_read_u16(bk, lo_idx, hi_idx) == bk[lo_idx] + bk[hi_idx] * 256

\* faulty variant: the high byte stored without the shift
backup_write_u16_NoShift(s, lo_idx, hi_idx, v) ==
    [s EXCEPT !.backup = [@ EXCEPT ![lo_idx] = v % 256, ![hi_idx] = v % 256],
              !.writes = Append(@, <<lo_idx, v>>)]

\* s is the working copy of the session: state_t, the backup bytes, and the
\* record of what this call did
backup_write_u16(s, lo_idx, hi_idx, v) ==
    [s EXCEPT !.backup = [@ EXCEPT ![lo_idx] = v % 256,
                                   ![hi_idx] = (v \div 256) % 256],
              !.writes = Append(@, <<lo_idx, v>>)]

----------------------------------------------------------------------------
(* date helper *)

mdays == <<31, 28, 31, 30, 31, 30, 31, 31, 30, 31, 30, 31>>

days_in_month(y, m) ==
    IF m # 2 THEN mdays[m]
    ELSE IF (y % 4 = 0 /\ y % 100 # 0) \/ y % 400 = 0 THEN 29 ELSE 28

\* IEEE-754 binary32 arithmetic, as far as compute_deficit uses it.  A float
\* that is not negative is the pair [n, e] of value n * 2^e with 0 <= n < 2^24;
\* the result of an operation is normalized (2^23 <= n), a difference need not be.
F32Norm(n, e) == IF n = 2^24 THEN [n |-> 2^23, e |-> e + 1] ELSE [n |-> n, e |-> e]

\* x doubled k times until it reaches lim
RECURSIVE NormUp(_, _, _)
NormUp(x, k, lim) == IF x >= lim THEN [x |-> x, k |-> k] ELSE NormUp(2 * x, k + 1, lim)

\* (float)p / (float)q for integers 1 <= p, q <= 255: the quotient rounded to
\* nearest, ties to even
F32Div(p, q) ==
    LET u == NormUp(p, 0, 2^23 * q)
        n == u.x \div q
        r == u.x % q
        up == 2 * r > q \/ (2 * r = q /\ n % 2 = 1)
    IN  F32Norm(IF up THEN n + 1 ELSE n, 0 - u.k)

\* (float)goal * f for an integer 1 <= goal < 4096 and a normalized f: the
\* 36-bit product A * 2^12 + B rounded to 24 bits, ties to even
F32MulInt(goal, f) ==
    LET hi == f.n \div 4096
        lo == f.n % 4096
        A == goal * hi + (goal * lo) \div 4096
        B == (goal * lo) % 4096
        s == CHOOSE k \in 0..12 : A < 2^(12 + k) /\ (k = 0 \/ A >= 2^(11 + k))
        n == A * 2^(12 - s) + B \div 2^s
        r == B % 2^s
        up == s > 0 /\ (2 * r > 2^s \/ (2 * r = 2^s /\ n % 2 = 1))
    IN  F32Norm(IF up THEN n + 1 ELSE n, f.e + s)

\* the integer part of a float below 2^24
F32Floor(x) == IF 0 - x.e >= 24 THEN 0 ELSE x.n \div 2^(0 - x.e)

\* x - (float)actual where it is not negative: both are multiples of 2^x.e and
\* the difference is below 2^24 of them, so the float subtraction is exact
F32SubInt(x, actual) == [n |-> x.n - actual * 2^(0 - x.e), e |-> x.e]

\* n * 2^sh, or 2^24 where that is 2^24 or more
F32Cap(n, sh) ==
    IF n = 0 THEN 0
    ELSE IF sh >= 24 THEN 2^24
    ELSE IF n >= 2^(24 - sh) THEN 2^24
    ELSE n * 2^sh

\* a <= b
F32Le(a, b) ==
    IF a.e >= b.e THEN F32Cap(a.n, a.e - b.e) <= b.n
    ELSE a.n <= F32Cap(b.n, b.e - a.e)

F32Zero == [n |-> 0, e |-> 0]

\* faulty variant: a negative difference is returned as it is
compute_deficit_NoClamp(goal, actual, date) ==
    IF ~date.ok THEN F32Zero
    ELSE LET dim == days_in_month(date.y, date.m)
             expected == F32MulInt(goal, F32Div(date.d, dim))
         IN  IF actual > F32Floor(expected)
             THEN [n |-> F32Floor(expected) - actual, e |-> 0]
             ELSE F32SubInt(expected, actual)

\* the deficit as a float: goal * (d / dim) with its two roundings, minus
\* actual, and 0 where that is negative
compute_deficit(goal, actual, date) ==
    IF ~date.ok THEN F32Zero
    ELSE LET dim == days_in_month(date.y, date.m)
             expected == F32MulInt(goal, F32Div(date.d, dim))
         IN  IF actual > F32Floor(expected)
             THEN F32Zero
             ELSE F32SubInt(expected, actual)

\* def > 0.0001f, the float 13743895 * 2^-37
DeficitShown(def) == ~F32Le(def, [n |-> 13743895, e |-> 0 - 37])

----------------------------------------------------------------------------
(* tap action handlers *)

\* faulty variant: the single tap looks at B's deficit
handle_single_tap_B(s, date) ==
    LET def_b == compute_deficit(s.goal_b, s.tally_b, date)
        t == [s EXCEPT !.fired = Append(@, "single")]
    IN  IF DeficitShown(def_b)
        THEN [t EXCEPT !.mode = "MODE_SHOW_GET",
                       !.get_sec_remaining = GET_SHOW_SECONDS]
        ELSE t

handle_single_tap(s, date) ==
    LET def_a == compute_deficit(s.goal_a, s.tally_a, date)
        t == [s EXCEPT !.fired = Append(@, "single")]
    IN  IF DeficitShown(def_a)
        THEN [t EXCEPT !.mode = "MODE_SHOW_GET",
                       !.get_sec_remaining = GET_SHOW_SECONDS]
        ELSE t

handle_double_tap(s, date) ==
    LET def_b == compute_deficit(s.goal_b, s.tally_b, date)
        t == [s EXCEPT !.fired = Append(@, "double")]
    IN  IF DeficitShown(def_b)
        THEN [t EXCEPT !.mode = "MODE_SHOW_GET",
                       !.get_sec_remaining = GET_SHOW_SECONDS]
        ELSE t

\* faulty variant: the triple tap always opens the goal A screen
handle_triple_tap_OnlyA(s) ==
    [s EXCEPT !.fired = Append(@, "triple"), !.mode = "MODE_SET_A"]

handle_triple_tap(s) ==
    LET t == [s EXCEPT !.fired = Append(@, "triple")]
    IN  IF s.mode = "MODE_SET_A"
        THEN [t EXCEPT !.mode = "MODE_SET_B"]
        ELSE [t EXCEPT !.mode = "MODE_SET_A"]

----------------------------------------------------------------------------
(* tally_face_loop, EVENT_TICK with subsecond == 0, phase by phase *)

\* faulty variant: the increment without its limit
IncTally_NoLimit(tally, max) == U16(tally + 1)

\* if (s->tally_a < MAX_GOAL_A) s->tally_a++;  and the same for B
IncTally(tally, max) == IF tally < max THEN U16(tally + 1) ELSE tally

\* faulty variant: on the goal screens a held LIGHT button is only counted
HoldLight_NotOnGoalScreens(s, pressed) ==
    IF pressed
    THEN LET h == [s EXCEPT !.hold_sec_a = U8(@ + 1)]
         IN  IF ~h.action_done_a /\ h.mode \notin {"MODE_SET_A", "MODE_SET_B"}
                /\ h.hold_sec_a >= INC_HOLD_SECONDS
             THEN LET i == [h EXCEPT !.tally_a = IncTally(@, MAX_GOAL_A)]
                      w == backup_write_u16(i, BK_TALLY_A_LO, BK_TALLY_A_HI, i.tally_a)
                  IN  [w EXCEPT !.action_done_a = TRUE, !.act_a = "inc"]
             ELSE h
    ELSE [s EXCEPT !.hold_sec_a = 0, !.action_done_a = FALSE]

\* BUTTON HOLD LOGIC, LIGHT: pressed is movement_is_button_pressed(BUTTON_LIGHT)
HoldLight(s, pressed) ==
    IF pressed
    THEN LET h == [s EXCEPT !.hold_sec_a = U8(@ + 1)]
         IN  IF ~h.action_done_a
             THEN IF h.hold_sec_a >= INC_HOLD_SECONDS /\ h.hold_sec_a < RESET_HOLD_SECONDS
                  THEN LET i == [h EXCEPT !.tally_a = IncTally(@, MAX_GOAL_A)]
                           w == backup_write_u16(i, BK_TALLY_A_LO, BK_TALLY_A_HI, i.tally_a)
                       IN  [w EXCEPT !.action_done_a = TRUE, !.act_a = "inc"]
                  ELSE IF h.hold_sec_a >= RESET_HOLD_SECONDS
                  THEN LET z == [h EXCEPT !.tally_a = 0]
                           w == backup_write_u16(z, BK_TALLY_A_LO, BK_TALLY_A_HI, z.tally_a)
                       IN  [w EXCEPT !.action_done_a = TRUE, !.act_a = "reset"]
                  ELSE h
             ELSE h
    ELSE [s EXCEPT !.hold_sec_a = 0, !.action_done_a = FALSE]

\* BUTTON HOLD LOGIC, ALARM
HoldAlarm(s, pressed) ==
    IF pressed
    THEN LET h == [s EXCEPT !.hold_sec_b = U8(@ + 1)]
         IN  IF ~h.action_done_b
             THEN IF h.hold_sec_b >= INC_HOLD_SECONDS /\ h.hold_sec_b < RESET_HOLD_SECONDS
                  THEN LET i == [h EXCEPT !.tally_b = IncTally(@, MAX_GOAL_B)]
                           w == backup_write_u16(i, BK_TALLY_B_LO, BK_TALLY_B_HI, i.tally_b)
                       IN  [w EXCEPT !.action_done_b = TRUE, !.act_b = "inc"]
                  ELSE IF h.hold_sec_b >= RESET_HOLD_SECONDS
                  THEN LET z == [h EXCEPT !.tally_b = 0]
                           w == backup_write_u16(z, BK_TALLY_B_LO, BK_TALLY_B_HI, z.tally_b)
                       IN  [w EXCEPT !.action_done_b = TRUE, !.act_b = "reset"]
                  ELSE h
             ELSE h
    ELSE [s EXCEPT !.hold_sec_b = 0, !.action_done_b = FALSE]

\* faulty variant: the debounce measured from the last tap
DebounceClear_LastTap(s, now) == U32(now - s.last_tap_ms) > TAP_DEBOUNCE_MS

\* now - s->last_gesture_ms > TAP_DEBOUNCE_MS, in uint32_t
DebounceClear(s, now) == U32(now - s.last_gesture_ms) > TAP_DEBOUNCE_MS

\* faulty variant: a window shorter than one tick
InTapWindow_Short(s, now) == U32(now - s.last_tap_ms) * 10 <= TRIPLE_TAP_WINDOW_MS

\* now - s->last_tap_ms <= TRIPLE_TAP_WINDOW_MS, in uint32_t
InTapWindow(s, now) == U32(now - s.last_tap_ms) <= TRIPLE_TAP_WINDOW_MS

\* faulty variant: the double tap neither stamps the gesture nor clears the run
TapDouble_HandlerOnly(s, int_src, now, date) ==
    IF HasBit(int_src, LIS2DW_TAP_SRC_DOUBLE_TAP) /\ DebounceClear(s, now)
    THEN handle_double_tap(s, date)
    ELSE s

\* immediate double-tap check
TapDouble(s, int_src, now, date) ==
    IF HasBit(int_src, LIS2DW_TAP_SRC_DOUBLE_TAP) /\ DebounceClear(s, now)
    THEN [handle_double_tap(s, date) EXCEPT !.last_gesture_ms = now,
                                            !.tap_count = 0, !.last_tap_ms = 0]
    ELSE s

\* single tap reported
TapSingle(s, int_src, now) ==
    IF HasBit(int_src, LIS2DW_TAP_SRC_SINGLE_TAP) /\ DebounceClear(s, now)
    THEN LET c == IF s.tap_count = 0
                  THEN [s EXCEPT !.tap_count = 1, !.last_tap_ms = now]
                  ELSE IF InTapWindow(s, now)
                  THEN [s EXCEPT !.tap_count = U8(@ + 1), !.last_tap_ms = now]
                  ELSE [s EXCEPT !.tap_count = 1, !.last_tap_ms = now]
         IN  IF c.tap_count >= 3
             THEN LET g == IF DebounceClear(c, now)
                           THEN [handle_triple_tap(c) EXCEPT !.last_gesture_ms = now]
                           ELSE c
                  IN  [g EXCEPT !.tap_count = 0, !.last_tap_ms = 0]
             ELSE c
    ELSE s

\* if tap window expired -> confirm single tap
TapExpire(s, now, date) ==
    IF s.tap_count > 0 /\ ~InTapWindow(s, now)
    THEN LET g == IF DebounceClear(s, now)
                  THEN [handle_single_tap(s, date) EXCEPT !.last_gesture_ms = now]
                  ELSE s
         IN  [g EXCEPT !.tap_count = 0, !.last_tap_ms = 0]
    ELSE s

\* GET countdown
GetCountdown(s) ==
    IF s.mode = "MODE_SHOW_GET"
    THEN LET c == IF s.get_sec_remaining > 0
                  THEN [s EXCEPT !.get_sec_remaining = @ - 1] ELSE s
         IN  IF c.get_sec_remaining = 0 THEN [c EXCEPT !.mode = "MODE_NORMAL"] ELSE c
    ELSE s

\* "%5.2f": the deficit rounded to hundredths (def.e <= 0; the decimal
\* conversion is exact, and no float of this computation lies halfway)
Hundredths(def) ==
    IF def.e = 0 THEN 100 * def.n
    ELSE (100 * def.n + 2^(0 - def.e - 1)) \div 2^(0 - def.e)

\* RENDER: which screen is drawn and the number on its main line
Render(s, date) ==
    IF s.mode = "MODE_SHOW_GET"
    THEN LET def_a == compute_deficit(s.goal_a, s.tally_a, date)
             def_b == compute_deficit(s.goal_b, s.tally_b, date)
         IN  IF DeficitShown(def_a) THEN [top |-> "GET A", main |-> Hundredths(def_a)]
             ELSE IF DeficitShown(def_b) THEN [top |-> "GET B", main |-> Hundredths(def_b)]
             ELSE [top |-> "TALLY", main |-> 0]
    ELSE IF s.mode = "MODE_SET_A" THEN [top |-> "SET A", main |-> s.goal_a]
    ELSE IF s.mode = "MODE_SET_B" THEN [top |-> "SET B", main |-> s.goal_b]
    ELSE [top |-> "TALLY", main |-> 0]

----------------------------------------------------------------------------
(* The working copy of the session a handler starts from, and its write-back *)

Cur ==
    [tally_a |-> tally_a, tally_b |-> tally_b, goal_a |-> goal_a, goal_b |-> goal_b,
     hold_sec_a |-> hold_sec_a, hold_sec_b |-> hold_sec_b,
     action_done_a |-> action_done_a, action_done_b |-> action_done_b,
     ms_clock |-> ms_clock, last_tap_ms |-> last_tap_ms, tap_count |-> tap_count,
     last_gesture_ms |-> last_gesture_ms,
     mode |-> mode, get_sec_remaining |-> get_sec_remaining,
     backup |-> backup,
     fired |-> <<>>, writes |-> <<>>, act_a |-> "none", act_b |-> "none",
     gest |-> gest]

Commit(s) ==
    /\ tally_a' = s.tally_a
    /\ tally_b' = s.tally_b
    /\ goal_a' = s.goal_a
    /\ goal_b' = s.goal_b
    /\ hold_sec_a' = s.hold_sec_a
    /\ hold_sec_b' = s.hold_sec_b
    /\ action_done_a' = s.action_done_a
    /\ action_done_b' = s.action_done_b
    /\ ms_clock' = s.ms_clock
    /\ last_tap_ms' = s.last_tap_ms
    /\ tap_count' = s.tap_count
    /\ last_gesture_ms' = s.last_gesture_ms
    /\ mode' = s.mode
    /\ get_sec_remaining' = s.get_sec_remaining
    /\ backup' = s.backup
    /\ fired' = s.fired
    /\ writes' = s.writes
    /\ gest' = s.gest

\* the inputs of a host call, as the history keeps them
Event(type) ==
    [type |-> type, malloc_ok |-> TRUE, light |-> FALSE, alarm |-> FALSE,
     int_src |-> 0, date |-> NoDate]

NoRun == [ticks |-> 0, start |-> 0, acts |-> <<>>, released |-> FALSE, activated |-> FALSE]

\* history of one button's hold: the whole-second ticks that saw it pressed in a
\* row, the tally when the hold began, the hold actions fired (kind, tally after)
\* and whether EVENT_ACTIVATE came in between.  A hold stays on record, marked
\* released, for the tick that saw the button up.
RunAfterTick(run, pressed, act, before, after) ==
    LET acts == IF act = "none" THEN <<>> ELSE << <<act, after>> >>
    IN  IF pressed
        THEN IF run.ticks = 0 \/ run.released
             THEN [ticks |-> 1, start |-> before, acts |-> acts,
                   released |-> FALSE, activated |-> FALSE]
             ELSE [run EXCEPT !.ticks = @ + 1, !.acts = @ \o acts]
        ELSE IF run.ticks > 0 /\ ~run.released
             THEN [run EXCEPT !.released = TRUE]
             ELSE NoRun

LastThree(q) == IF Len(q) > 3 THEN Tail(q) ELSE q

RunAfterActivate(run) ==
    IF run.ticks > 0 /\ ~run.released THEN [run EXCEPT !.activated = TRUE] ELSE run

----------------------------------------------------------------------------
(* lifecycle *)

\* faulty variant: the upper limits of the load off by one
Load_OffByOne(bk) ==
    LET ta == bk[BK_TALLY_A_LO] + bk[BK_TALLY_A_HI] * 256
        tb == bk[BK_TALLY_B_LO] + bk[BK_TALLY_B_HI] * 256
        sg_a == bk[BK_GOAL_A_LO] + bk[BK_GOAL_A_HI] * 256
        sg_b == bk[BK_GOAL_B_LO] + bk[BK_GOAL_B_HI] * 256
    IN  [tally_a |-> IF ta >= MAX_GOAL_A THEN MAX_GOAL_A ELSE ta,
         tally_b |-> IF tb >= MAX_GOAL_B THEN MAX_GOAL_B ELSE tb,
         goal_a |-> IF sg_a < MIN_GOAL \/ sg_a >= MAX_GOAL_A THEN GOAL_A_DEFAULT ELSE sg_a,
         goal_b |-> IF sg_b < MIN_GOAL \/ sg_b >= MAX_GOAL_B THEN GOAL_B_DEFAULT ELSE sg_b]

\* what tally_face_setup loads from the backup bytes
Load(bk) ==
    LET ta == backup_read_u16(bk, BK_TALLY_A_LO, BK_TALLY_A_HI)
        tb == backup_read_u16(bk, BK_TALLY_B_LO, BK_TALLY_B_HI)
        sg_a == backup_read_u16(bk, BK_GOAL_A_LO, BK_GOAL_A_HI)
        sg_b == backup_read_u16(bk, BK_GOAL_B_LO, BK_GOAL_B_HI)
    IN  [tally_a |-> IF ta > MAX_GOAL_A THEN MAX_GOAL_A ELSE ta,
         tally_b |-> IF tb > MAX_GOAL_B THEN MAX_GOAL_B ELSE tb,
         goal_a |-> IF sg_a < MIN_GOAL \/ sg_a > MAX_GOAL_A THEN GOAL_A_DEFAULT ELSE sg_a,
         goal_b |-> IF sg_b < MIN_GOAL \/ sg_b > MAX_GOAL_B THEN GOAL_B_DEFAULT ELSE sg_b]

\* before setup there is no state_t: the fields hold nothing the program reads
NoSession ==
    /\ tally_a = 0 /\ tally_b = 0 /\ goal_a = 0 /\ goal_b = 0
    /\ hold_sec_a = 0 /\ hold_sec_b = 0
    /\ action_done_a = FALSE /\ action_done_b = FALSE
    /\ ms_clock = 0 /\ last_tap_ms = 0 /\ tap_count = 0 /\ last_gesture_ms = 0
    /\ mode = "MODE_NORMAL" /\ get_sec_remaining = 0

NoHistory ==
    /\ ev = Event("boot") /\ ret = TRUE /\ fired = <<>> /\ writes = <<>>
    /\ gest = [mode_before |-> "MODE_NORMAL", get_before |-> 0,
               mode |-> "MODE_NORMAL", get_sec_remaining |-> 0]
    /\ display = [top |-> "CLEAR", main |-> 0]
    /\ run_a = NoRun /\ run_b = NoRun /\ recent = <<>> /\ n_events = 0

InitFrom(images) ==
    /\ context = NULL
    /\ backup \in images
    /\ NoSession
    /\ NoHistory

Init == InitFrom(StoredImages)

\* faulty variant: setup loads again when a session already exists
Setup_Reloads(malloc_ok) ==
    /\ IF malloc_ok
       THEN LET l == Load(backup)
            IN  /\ tally_a' = l.tally_a /\ tally_b' = l.tally_b
                /\ goal_a' = l.goal_a /\ goal_b' = l.goal_b
                /\ hold_sec_a' = 0 /\ hold_sec_b' = 0
                /\ action_done_a' = FALSE /\ action_done_b' = FALSE
                /\ ms_clock' = 0 /\ last_tap_ms' = 0 /\ tap_count' = 0
                /\ last_gesture_ms' = 0
                /\ mode' = "MODE_NORMAL" /\ get_sec_remaining' = 0
                /\ context' = ALLOCATED
       ELSE UNCHANGED <<prog_vars, context>>
    /\ n_events' = IF context = NULL THEN n_events ELSE n_events + 1
    /\ ev' = [Event("setup") EXCEPT !.malloc_ok = malloc_ok]
    /\ fired' = <<>> /\ writes' = <<>>
    /\ UNCHANGED <<backup, ret, gest, display, run_a, run_b, recent>>

\* tally_face_setup; malloc_ok is whether malloc returns memory
Setup(malloc_ok) ==
    /\ IF context = NULL /\ malloc_ok
       THEN LET l == Load(backup)
            IN  /\ tally_a' = l.tally_a /\ tally_b' = l.tally_b
                /\ goal_a' = l.goal_a /\ goal_b' = l.goal_b
                /\ hold_sec_a' = 0 /\ hold_sec_b' = 0
                /\ action_done_a' = FALSE /\ action_done_b' = FALSE
                /\ ms_clock' = 0 /\ last_tap_ms' = 0 /\ tap_count' = 0
                /\ last_gesture_ms' = 0
                /\ mode' = "MODE_NORMAL" /\ get_sec_remaining' = 0
                /\ context' = ALLOCATED
       ELSE UNCHANGED <<prog_vars, context>>
    /\ n_events' = IF context = NULL THEN n_events ELSE n_events + 1
    /\ ev' = [Event("setup") EXCEPT !.malloc_ok = malloc_ok]
    /\ fired' = <<>> /\ writes' = <<>>
    /\ UNCHANGED <<backup, ret, gest, display, run_a, run_b, recent>>

----------------------------------------------------------------------------
(* tally_face_loop *)

\* if (!s) return false;
NullReturn(e) ==
    /\ ret' = FALSE
    /\ ev' = e
    /\ n_events' = n_events + 1
    /\ fired' = <<>> /\ writes' = <<>>
    /\ UNCHANGED <<prog_vars, context, backup, gest, display, run_a, run_b, recent>>

\* ACCEL TAPS: the three checks in the order of the code, on now = s->ms_clock
TapPhase(s, int_src, date) ==
    LET now == s.ms_clock
    IN  TapExpire(TapSingle(TapDouble(s, int_src, now, date), int_src, now), now, date)

\* faulty variant: the tap phase runs before the hold phase
TickSecond_TapsFirst(s, light, alarm, int_src, date) ==
    LET c == [s EXCEPT !.ms_clock = U32(@ + TICK_MS)]
        g == TapPhase(c, int_src, date)
        h == HoldAlarm(HoldLight(g, light), alarm)
    IN  GetCountdown([h EXCEPT !.gest = [mode_before |-> s.mode,
                                         get_before |-> s.get_sec_remaining,
                                         mode |-> g.mode,
                                         get_sec_remaining |-> g.get_sec_remaining]])

\* the subsecond == 0 part of EVENT_TICK: clock, holds, taps, countdown
TickSecond(s, light, alarm, int_src, date) ==
    LET c == [s EXCEPT !.ms_clock = U32(@ + TICK_MS)]
        h == HoldAlarm(HoldLight(c, light), alarm)
        g == TapPhase(h, int_src, date)
    IN  GetCountdown([g EXCEPT !.gest = [mode_before |-> s.mode,
                                         get_before |-> s.get_sec_remaining,
                                         mode |-> g.mode,
                                         get_sec_remaining |-> g.get_sec_remaining]])

\* case EVENT_TICK, event.subsecond == 0
TickWhole(light, alarm, int_src, date) ==
    LET e == [Event("tick") EXCEPT !.light = light, !.alarm = alarm,
                                   !.int_src = int_src, !.date = date]
    IN  IF context = NULL
        THEN NullReturn(e)
        ELSE /\ LET s == TickSecond(Cur, light, alarm, int_src, date)
                IN  /\ Commit(s)
                    /\ display' = Render(s, date)
                    /\ run_a' = RunAfterTick(run_a, light, s.act_a, tally_a, s.tally_a)
                    /\ run_b' = RunAfterTick(run_b, alarm, s.act_b, tally_b, s.tally_b)
                    /\ recent' = LastThree(Append(recent,
                                     [now |-> s.ms_clock, int_src |-> int_src,
                                      tap_before |-> tap_count,
                                      last_tap_before |-> last_tap_ms,
                                      fired |-> s.fired,
                                      entered |-> s.gest.mode = "MODE_SHOW_GET"
                                                  /\ s.gest.get_sec_remaining
                                                     = GET_SHOW_SECONDS,
                                      mode |-> s.mode,
                                      get |-> s.get_sec_remaining]))
             /\ ev' = e
             /\ ret' = TRUE
             /\ UNCHANGED <<context, n_events>>

\* case EVENT_TICK, event.subsecond != 0: only the render
TickSub(date) ==
    LET e == [Event("subtick") EXCEPT !.date = date]
    IN  IF context = NULL
        THEN NullReturn(e)
        ELSE /\ Commit(Cur)
             /\ display' = Render(Cur, date)
             /\ ev' = e
             /\ ret' = TRUE
             /\ n_events' = n_events + 1
             /\ UNCHANGED <<context, run_a, run_b, recent>>

\* case EVENT_ACTIVATE
Activate ==
    IF context = NULL
    THEN NullReturn(Event("activate"))
    ELSE /\ Commit([Cur EXCEPT !.hold_sec_a = 0, !.hold_sec_b = 0,
                               !.action_done_a = FALSE, !.action_done_b = FALSE])
         /\ run_a' = RunAfterActivate(run_a)
         /\ run_b' = RunAfterActivate(run_b)
         /\ ev' = Event("activate")
         /\ ret' = TRUE
         /\ n_events' = n_events + 1
         /\ UNCHANGED <<context, display, recent>>

\* faulty variant: on the goal B screen the LIGHT button raises goal B
LightButtonUpBody_RaisesB(s) ==
    IF s.mode = "MODE_SET_A"
    THEN LET i == IF s.goal_a < MAX_GOAL_A THEN [s EXCEPT !.goal_a = U16(@ + 1)] ELSE s
         IN  backup_write_u16(i, BK_GOAL_A_LO, BK_GOAL_A_HI, i.goal_a)
    ELSE IF s.mode = "MODE_SET_B"
    THEN LET i == IF s.goal_b < MAX_GOAL_B THEN [s EXCEPT !.goal_b = U16(@ + 1)] ELSE s
         IN  backup_write_u16(i, BK_GOAL_B_LO, BK_GOAL_B_HI, i.goal_b)
    ELSE s

\* faulty variant: the raised goal is not written to storage
LightButtonUpBody_NoWrite(s) ==
    IF s.mode = "MODE_SET_A"
    THEN IF s.goal_a < MAX_GOAL_A THEN [s EXCEPT !.goal_a = U16(@ + 1)] ELSE s
    ELSE s

\* case EVENT_LIGHT_BUTTON_UP
LightButtonUpBody(s) ==
    IF s.mode = "MODE_SET_A"
    THEN LET i == IF s.goal_a < MAX_GOAL_A THEN [s EXCEPT !.goal_a = U16(@ + 1)] ELSE s
             lo == IF i.goal_a < MIN_GOAL THEN [i EXCEPT !.goal_a = MIN_GOAL] ELSE i
             hi == IF lo.goal_a > MAX_GOAL_A THEN [lo EXCEPT !.goal_a = MAX_GOAL_A] ELSE lo
         IN  backup_write_u16(hi, BK_GOAL_A_LO, BK_GOAL_A_HI, hi.goal_a)
    ELSE s

\* faulty variant: the decrement without its floor
DecGoal_NoFloor(goal) == U16(goal + 65535)

\* if (s->goal_a > MIN_GOAL) s->goal_a--;  and the same for B
DecGoal(goal) == IF goal > MIN_GOAL THEN goal - 1 ELSE goal

\* case EVENT_ALARM_BUTTON_UP
AlarmButtonUpBody(s) ==
    IF s.mode = "MODE_SET_A"
    THEN LET d == [s EXCEPT !.goal_a = DecGoal(@)]
         IN  backup_write_u16(d, BK_GOAL_A_LO, BK_GOAL_A_HI, d.goal_a)
    ELSE IF s.mode = "MODE_SET_B"
    THEN LET d == [s EXCEPT !.goal_b = DecGoal(@)]
         IN  backup_write_u16(d, BK_GOAL_B_LO, BK_GOAL_B_HI, d.goal_b)
    ELSE s

\* an event that leaves the session to s and returns r
Handled(e, s, r) ==
    /\ Commit(s)
    /\ ev' = e
    /\ ret' = r
    /\ n_events' = n_events + 1
    /\ UNCHANGED <<context, display, run_a, run_b, recent>>

LightButtonUp ==
    IF context = NULL
    THEN NullReturn(Event("light_up"))
    ELSE Handled(Event("light_up"), LightButtonUpBody(Cur), TRUE)

AlarmButtonUp ==
    IF context = NULL
    THEN NullReturn(Event("alarm_up"))
    ELSE Handled(Event("alarm_up"), AlarmButtonUpBody(Cur), TRUE)

\* faulty variant: the MODE button never lets the face be left
ModeButtonUp_StaysActive ==
    IF context = NULL
    THEN NullReturn(Event("mode_up"))
    ELSE Handled(Event("mode_up"), [Cur EXCEPT !.mode = "MODE_NORMAL"], TRUE)

\* case EVENT_MODE_BUTTON_UP
ModeButtonUp ==
    IF context = NULL
    THEN NullReturn(Event("mode_up"))
    ELSE IF mode = "MODE_SET_A" \/ mode = "MODE_SET_B"
         THEN Handled(Event("mode_up"), [Cur EXCEPT !.mode = "MODE_NORMAL"], TRUE)
         ELSE Handled(Event("mode_up"), Cur, FALSE)

\* default:
OtherEvent ==
    IF context = NULL
    THEN NullReturn(Event("other"))
    ELSE Handled(Event("other"), Cur, TRUE)

----------------------------------------------------------------------------

(* Specifications: the same handlers under different ranges of inputs *)

\* a whole-second tick fits the bounds
CanTick(ticks, events) ==
    IF context = NULL THEN n_events < events ELSE ms_clock < ticks * TICK_MS

\* another event fits the bound
CanEvent(events) == n_events < events

\* every handler, every input
Next ==
    \/ \E malloc_ok \in BOOLEAN :
          (context = NULL \/ CanEvent(MaxEvents)) /\ Setup(malloc_ok)
    \/ \E light \in BOOLEAN, alarm \in BOOLEAN, int_src \in IntSrcs, date \in Dates :
          CanTick(MaxTicks, MaxEvents) /\ TickWhole(light, alarm, int_src, date)
    \/ \E date \in Dates : CanEvent(MaxEvents) /\ TickSub(date)
    \/ CanEvent(MaxEvents) /\ Activate
    \/ CanEvent(MaxEvents) /\ LightButtonUp
    \/ CanEvent(MaxEvents) /\ AlarmButtonUp
    \/ CanEvent(MaxEvents) /\ ModeButtonUp
    \/ CanEvent(MaxEvents) /\ OtherEvent

Spec == Init /\ [][Next]_vars

\* the buttons held and released, with re-activation in between; no taps
InitHold == InitFrom(StoredImages)

NextHold ==
    \/ context = NULL /\ Setup(TRUE)
    \/ \E light \in BOOLEAN, alarm \in BOOLEAN :
          CanTick(HoldTicks, HoldEvents) /\ TickWhole(light, alarm, 0, NoDate)
    \/ CanEvent(HoldEvents) /\ Activate

SpecHold == InitHold /\ [][NextHold]_vars

\* taps on every date; no button held
InitTap == InitFrom(TapImages)

NextTap ==
    \/ context = NULL /\ Setup(TRUE)
    \/ \E int_src \in IntSrcs, date \in Dates :
          CanTick(TapTicks, 0) /\ TickWhole(FALSE, FALSE, int_src, date)

SpecTap == InitTap /\ [][NextTap]_vars

\* the goal screens: single taps lead there (or to the deficit screen), button-up
\* events adjust and leave
InitGoal == InitFrom(GoalImages)

NextGoal ==
    \/ context = NULL /\ Setup(TRUE)
    \/ \E int_src \in {0, LIS2DW_TAP_SRC_SINGLE_TAP}, date \in {NoDate, Date(2023, 4, 10)} :
          CanTick(GoalTicks, 0) /\ TickWhole(FALSE, FALSE, int_src, date)
    \/ CanEvent(GoalEvents) /\ LightButtonUp
    \/ CanEvent(GoalEvents) /\ AlarmButtonUp
    \/ CanEvent(GoalEvents) /\ ModeButtonUp

SpecGoal == InitGoal /\ [][NextGoal]_vars

\* every persisted field written: a tap every second walks through the goal
\* screens while the buttons are held, released and clicked
InitStore == InitFrom(StoreImages)

NextStore ==
    \/ context = NULL /\ Setup(TRUE)
    \/ \E light \in BOOLEAN, alarm \in BOOLEAN :
          CanTick(StoreTicks, 0)
          /\ TickWhole(light, alarm, LIS2DW_TAP_SRC_SINGLE_TAP, NoDate)
    \/ CanEvent(StoreEvents) /\ LightButtonUp
    \/ CanEvent(StoreEvents) /\ AlarmButtonUp
    \/ CanEvent(StoreEvents) /\ ModeButtonUp

SpecStore == InitStore /\ [][NextStore]_vars

\* long runs of single taps, with and without a date: triple-tap after triple-tap
InitTriple == InitFrom(TapImages)

NextTriple ==
    \/ context = NULL /\ Setup(TRUE)
    \/ \E int_src \in {0, LIS2DW_TAP_SRC_SINGLE_TAP}, date \in {NoDate, Date(2023, 4, 10)} :
          CanTick(TripleTicks, 0) /\ TickWhole(FALSE, FALSE, int_src, date)

SpecTriple == InitTriple /\ [][NextTriple]_vars

\* every kind of event in every mode: a tap flag on every tick walks through
\* the deficit and goal screens; setup may find no memory
InitEvent == InitFrom(TapImages)

NextEvent ==
    \/ \E malloc_ok \in BOOLEAN :
          (context = NULL \/ CanEvent(EventEvents)) /\ Setup(malloc_ok)
    \/ \E int_src \in {LIS2DW_TAP_SRC_SINGLE_TAP, LIS2DW_TAP_SRC_DOUBLE_TAP} :
          CanTick(EventTicks, EventEvents)
          /\ TickWhole(FALSE, FALSE, int_src, Date(2023, 4, 10))
    \/ CanEvent(EventEvents) /\ TickSub(Date(2023, 4, 10))
    \/ CanEvent(EventEvents) /\ Activate
    \/ CanEvent(EventEvents) /\ LightButtonUp
    \/ CanEvent(EventEvents) /\ AlarmButtonUp
    \/ CanEvent(EventEvents) /\ ModeButtonUp
    \/ CanEvent(EventEvents) /\ OtherEvent

SpecEvent == InitEvent /\ [][NextEvent]_vars

\* buttons held while taps arrive, on a date that makes the deficits count
InitPhase == InitFrom(PhaseImages)

NextPhase ==
    \/ context = NULL /\ Setup(TRUE)
    \/ \E light \in BOOLEAN, alarm \in BOOLEAN, int_src \in IntSrcs :
          CanTick(PhaseTicks, 0) /\ TickWhole(light, alarm, int_src, Date(2023, 4, 10))

SpecPhase == InitPhase /\ [][NextPhase]_vars

\* the deficit computed for goals, tallies and dates over their ranges: a
\* double tap opens the deficit screen, which shows A's deficit where there is
\* one; the date stays the same for the ticks of a session
InitDeficit == InitFrom(DeficitImages)

NextDeficit ==
    \/ context = NULL /\ Setup(TRUE)
    \/ \E date \in DeficitDates :
          /\ date.d <= days_in_month(date.y, date.m)
          /\ (recent = <<>> \/ date = ev.date)
          /\ CanTick(DeficitTicks, 0)
          /\ TickWhole(FALSE, FALSE, LIS2DW_TAP_SRC_DOUBLE_TAP, date)

SpecDeficit == InitDeficit /\ [][NextDeficit]_vars

\* the buttons held on the goal screens as on the Normal screen: a tap every
\* second, and any one other event in between
InitFrame == InitFrom({Image(50, 2, 12, 4)})

NextFrame ==
    \/ context = NULL /\ Setup(TRUE)
    \/ \E light \in BOOLEAN, alarm \in BOOLEAN :
          CanTick(FrameTicks, 0)
          /\ TickWhole(light, alarm, LIS2DW_TAP_SRC_SINGLE_TAP, NoDate)
    \/ CanEvent(FrameEvents) /\ TickSub(NoDate)
    \/ CanEvent(FrameEvents) /\ Activate
    \/ CanEvent(FrameEvents) /\ LightButtonUp
    \/ CanEvent(FrameEvents) /\ AlarmButtonUp
    \/ CanEvent(FrameEvents) /\ ModeButtonUp
    \/ CanEvent(FrameEvents) /\ OtherEvent

SpecFrame == InitFrame /\ [][NextFrame]_vars

\* session creation alone, from every combination of the stored values
InitLoad == InitFrom(LoadImages)

NextLoad == \E malloc_ok \in BOOLEAN : context = NULL /\ Setup(malloc_ok)

SpecLoad == InitLoad /\ [][NextLoad]_vars

----------------------------------------------------------------------------
(* Properties *)

Min(a, b) == IF a < b THEN a ELSE b
Max(a, b) == IF a > b THEN a ELSE b

Session == context # NULL

\* the outcome the exactly-once rule promises for a completed hold
HoldAsClaimed(run, max) ==
    IF run.ticks < 2 THEN run.acts = <<>>
    ELSE IF run.ticks < 5 THEN run.acts = << <<"inc", Min(run.start + 1, max)>> >>
    ELSE run.acts = << <<"reset", 0>> >>

\* C1: a hold seen pressed on exactly d whole-second ticks in a row performs
\* exactly one action on its tally: none if d < 2, one saturating increment if
\* 2 <= d < 5, one reset to 0 (and no increment) if d >= 5; the tally written
\* to storage is the tally after the action.  Stated for holds that no
\* EVENT_ACTIVATE interrupts.
C1_ExactlyOneActionPerHold ==
    /\ (run_a.released /\ ~run_a.activated) => HoldAsClaimed(run_a, 999)
    /\ (run_b.released /\ ~run_b.activated) => HoldAsClaimed(run_b, 99)

\* the 16-bit value the two little-endian bytes at lo, lo + 1 hold
Stored(lo) == backup[lo] + 256 * backup[lo + 1]

\* the in-memory field persisted at lo
FieldAt(lo) ==
    CASE lo = 0 -> tally_a
      [] lo = 2 -> tally_b
      [] lo = 4 -> goal_a
      [] OTHER -> goal_b

\* C2: after setup and after every event, loading the 8 storage bytes again
\* yields exactly the in-memory tallies and goals, and every value an event
\* wrote is the field's in-memory value, held little-endian in its two bytes.
C2_StorageMatchesMemory ==
    Session =>
        /\ Load(backup) = [tally_a |-> tally_a, tally_b |-> tally_b,
                           goal_a |-> goal_a, goal_b |-> goal_b]
        /\ \A i \in 1..Len(writes) :
              /\ writes[i][2] = FieldAt(writes[i][1])
              /\ backup[writes[i][1]] = writes[i][2] % 256
              /\ backup[writes[i][1] + 1] = writes[i][2] \div 256

\* a goal lowered in SetGoalB and found again by a load
C2_Witness ==
    /\ Session /\ ev.type = "alarm_up" /\ mode = "MODE_SET_B"
    /\ goal_b = 97 /\ writes = << <<6, 97>> >>
    /\ Stored(6) = 97 /\ Load(backup).goal_b = 97

\* each hold action of a run sets the tally as claimed: an increment to
\* min(tally + 1, max), a reset to 0
ActsFollow(run, max) ==
    \A i \in 1..Len(run.acts) :
        LET prev == IF i = 1 THEN run.start ELSE run.acts[i - 1][2]
        IN  /\ run.acts[i][1] = "inc" => run.acts[i][2] = Min(prev + 1, max)
            /\ run.acts[i][1] = "reset" => run.acts[i][2] = 0

\* C3: in every state of a session 0 <= tally_a <= 999 and 0 <= tally_b <= 99,
\* every increment saturates at the maximum and every reset yields 0.
C3_TalliesBounded ==
    Session =>
        /\ tally_a \in 0..999 /\ tally_b \in 0..99
        /\ ActsFollow(run_a, 999) /\ ActsFollow(run_b, 99)

\* an increment of a tally that already is at its maximum
C3_Witness ==
    /\ Session /\ run_a.start = 999 /\ run_a.acts = << <<"inc", 999>> >> /\ tally_a = 999
    /\ Stored(0) = 999

\* C4: in every state of a session 1 <= goal_a <= 999 and 1 <= goal_b <= 99.
C4_GoalsBounded == Session => goal_a \in 1..999 /\ goal_b \in 1..99

\* goal B at its minimum after a decrement in SetGoalB
C4_Witness ==
    /\ Session /\ ev.type = "alarm_up" /\ mode = "MODE_SET_B"
    /\ goal_b = 1 /\ writes = << <<6, 1>> >> /\ n_events >= 2

\* C5: session creation takes a stored goal inside [1, max] as it is and
\* replaces any other by the default (12 for A, 4 for B), and takes each
\* stored tally clamped to its maximum.
C5_LoadNormalizes ==
    (Session /\ ev.type = "setup") =>
        /\ goal_a = IF 1 <= Stored(4) /\ Stored(4) <= 999 THEN Stored(4) ELSE 12
        /\ goal_b = IF 1 <= Stored(6) /\ Stored(6) <= 99 THEN Stored(6) ELSE 4
        /\ tally_a = Min(Stored(0), 999)
        /\ tally_b = Min(Stored(2), 99)

\* a stored goal A of 1000, a stored goal B of 0 and a corrupt tally A
C5_Witness ==
    /\ Session /\ ev.type = "setup"
    /\ Stored(4) = 1000 /\ goal_a = 12
    /\ Stored(6) = 0 /\ goal_b = 4
    /\ Stored(0) = 65535 /\ tally_a = 999
    /\ Stored(2) = 99 /\ tally_b = 99

\* the record of the last whole-second tick, and of the k-th before it
LastTick == recent[Len(recent)]
TickBack(k) == recent[Len(recent) - k]

\* the state is the one the last whole-second tick left
AfterTick == Session /\ ev.type = "tick" /\ recent # <<>>

SINGLE == LIS2DW_TAP_SRC_SINGLE_TAP
BOTH == LIS2DW_TAP_SRC_SINGLE_TAP + LIS2DW_TAP_SRC_DOUBLE_TAP

\* C6: a tick that begins with a run of 1 or 2 taps whose last tap is more
\* than 1500 ms old, and in which no double-tap gesture fires, fires a
\* single-tap gesture and resets the run, whatever the single-tap flag of that
\* tick is; a lone tap followed by two ticks without flags fires nothing at its
\* own tick or the next and exactly one single-tap gesture at the tick after.
C6_StaleRunFinalized ==
    AfterTick =>
        /\ ( /\ LastTick.tap_before \in {1, 2}
             /\ LastTick.now - LastTick.last_tap_before > 1500
             /\ LastTick.fired # <<"double">> )
           => (LastTick.fired = <<"single">> /\ tap_count = 0)
        /\ ( /\ Len(recent) = 3
             /\ recent[1].tap_before = 0 /\ recent[1].int_src = SINGLE
             /\ recent[2].int_src = 0 /\ recent[3].int_src = 0 )
           => ( /\ recent[1].fired = <<>> /\ recent[2].fired = <<>>
                /\ recent[3].fired = <<"single">> /\ tap_count = 0 )

\* C7: with no run in progress, single-tap flags (and no double-tap flag) on
\* three consecutive ticks, each within 1500 ms of the one before, fire nothing
\* at the first two ticks and exactly one triple-tap gesture at the third, and
\* leave tap_count = 0.
C7_TripleTap ==
    ( /\ AfterTick /\ Len(recent) = 3
      /\ recent[1].tap_before = 0
      /\ \A i \in 1..3 : recent[i].int_src = SINGLE
      /\ \A i \in 2..3 : recent[i].now - recent[i - 1].now <= 1500 )
    => ( /\ recent[1].fired = <<>> /\ recent[2].fired = <<>>
         /\ recent[3].fired = <<"triple">>
         /\ tap_count = 0 /\ last_tap_ms = 0 )

\* three taps in a row open the goal A screen
C7_Witness ==
    /\ AfterTick /\ Len(recent) = 3
    /\ recent[1].tap_before = 0
    /\ \A i \in 1..3 : recent[i].int_src = SINGLE
    /\ fired = <<"triple">> /\ mode = "MODE_SET_A" /\ tap_count = 0

\* C8: no tick invokes more than one of the three gesture handlers.
C8_AtMostOneGesture == Len(fired) <= 1

\* both flags on a tick that begins with a run of two taps
C8_Witness ==
    /\ AfterTick /\ LastTick.int_src = BOTH /\ LastTick.tap_before = 2
    /\ fired = <<"double">>

\* C9: two recognized gestures are more than 250 ms apart on ms_clock; a tick
\* with both flags set fires the double-tap gesture only and leaves no run
\* (tap_count = 0), and the ticks without flags that follow fire nothing.
C9_Debounce ==
    Session =>
        /\ \A i \in DOMAIN recent : Len(recent[i].fired) <= 1
        /\ \A i \in DOMAIN recent : \A j \in DOMAIN recent :
              (i < j /\ recent[i].fired # <<>> /\ recent[j].fired # <<>>)
              => recent[j].now - recent[i].now > 250
        /\ (AfterTick /\ LastTick.int_src = BOTH)
           => (fired = <<"double">> /\ tap_count = 0 /\ last_tap_ms = 0)
        /\ \A i \in DOMAIN recent : \A j \in DOMAIN recent :
              ( /\ i < j /\ recent[i].int_src = BOTH
                /\ \A k \in (i + 1)..j : recent[k].int_src = 0 )
              => recent[j].fired = <<>>

\* both flags while a run is in progress, then a tick without flags
C9_Witness ==
    /\ AfterTick /\ Len(recent) >= 2
    /\ TickBack(1).int_src = BOTH /\ TickBack(1).tap_before = 1
    /\ TickBack(1).fired = <<"double">>
    /\ LastTick.int_src = 0 /\ LastTick.tap_before = 0 /\ fired = <<>>

\* goal * day / days_in_month - tally is positive, on an available date
Behind(goal, tally, date) ==
    date.ok /\ goal * date.d > tally * days_in_month(date.y, date.m)

\* the tap phase of the last tick entered ShowDeficit / left the mode alone
EnteredShow == gest.mode = "MODE_SHOW_GET" /\ gest.get_sec_remaining = 3
ModeKept == gest.mode = gest.mode_before /\ gest.get_sec_remaining = gest.get_before

\* C10: a single-tap gesture sets the mode to ShowDeficit with countdown 3
\* exactly if A's deficit is positive, a double-tap gesture exactly if B's is;
\* otherwise the gesture leaves mode and countdown as they were; with no date
\* available neither gesture enters ShowDeficit.
C10_DeficitGate ==
    AfterTick =>
        /\ fired = <<"single">> =>
              /\ EnteredShow <=> Behind(goal_a, tally_a, ev.date)
              /\ ~Behind(goal_a, tally_a, ev.date) => ModeKept
        /\ fired = <<"double">> =>
              /\ EnteredShow <=> Behind(goal_b, tally_b, ev.date)
              /\ ~Behind(goal_b, tally_b, ev.date) => ModeKept
        /\ (~ev.date.ok /\ fired \in {<<"single">>, <<"double">>}) => ModeKept

\* goal A 12, day 10 of a 30-day month, tally A 2: deficit 2.00, shown
C10_Witness ==
    /\ AfterTick /\ fired = <<"single">>
    /\ goal_a = 12 /\ tally_a = 2 /\ ev.date = Date(2023, 4, 10)
    /\ gest.mode_before = "MODE_NORMAL" /\ EnteredShow
    /\ display = [top |-> "GET A", main |-> 200]

\* C11: when the tap phase of whole-second tick k enters ShowDeficit (countdown
\* set to 3) and ticks k+1 and k+2 fire no gesture, with no button event in
\* between, the ticks k, k+1 and k+2 all render ShowDeficit, the countdown is
\* one less after each of k+1 and k+2, and a tick without gesture that begins
\* in ShowDeficit returns to Normal exactly when its countdown reaches 0.
C11_ShowLastsThreeTicks ==
    AfterTick =>
        /\ ( /\ Len(recent) = 3 /\ recent[1].entered
             /\ recent[2].fired = <<>> /\ recent[3].fired = <<>> )
           => ( /\ \A i \in 1..3 : recent[i].mode = "MODE_SHOW_GET"
                /\ recent[2].get = recent[1].get - 1
                /\ recent[3].get = recent[2].get - 1 )
        /\ (gest.mode_before = "MODE_SHOW_GET" /\ fired = <<>>)
           => ( /\ get_sec_remaining = gest.get_before - 1
                /\ mode = "MODE_NORMAL" <=> get_sec_remaining = 0 )

\* the deficit entered at tick k, no gesture since, and tick k+2 already
\* renders the Normal screen
C11_Witness ==
    /\ AfterTick /\ Len(recent) = 3 /\ recent[1].entered
    /\ recent[1].mode = "MODE_SHOW_GET" /\ recent[1].get = 2
    /\ recent[2].fired = <<>> /\ recent[2].mode = "MODE_SHOW_GET" /\ recent[2].get = 1
    /\ recent[3].fired = <<>> /\ mode = "MODE_NORMAL" /\ get_sec_remaining = 0
    /\ display.top = "TALLY"

\* C12: a triple-tap gesture sets the mode to SetGoalB if the mode was SetGoalA
\* and to SetGoalA from every other mode, and changes no tally, no goal and no
\* storage byte; so triple-taps in a row alternate SetGoalA, SetGoalB, SetGoalA.
\* Stated of ticks that see no button pressed, where the gesture is the only
\* thing that could change a tally.
C12_TripleTapToggles ==
    [][(Session /\ ev'.type = "tick" /\ fired' = <<"triple">>
        /\ ~ev'.light /\ ~ev'.alarm)
       => ( /\ mode' = IF mode = "MODE_SET_A" THEN "MODE_SET_B" ELSE "MODE_SET_A"
            /\ tally_a' = tally_a /\ tally_b' = tally_b
            /\ goal_a' = goal_a /\ goal_b' = goal_b
            /\ backup' = backup /\ writes' = <<>> )]_vars

\* the third triple-tap in a row: from SetGoalB back to SetGoalA
C12_Witness ==
    /\ AfterTick /\ fired = <<"triple">> /\ ms_clock = 9 * TICK_MS
    /\ gest.mode_before = "MODE_SET_B" /\ mode = "MODE_SET_A"
    /\ display.top = "SET A"

\* C13: a LIGHT button-up event in SetGoalA sets goal_a to min(goal_a + 1, 999)
\* and writes goal_a to storage; an ALARM button-up event sets goal_a to
\* max(goal_a - 1, 1) in SetGoalA and goal_b to max(goal_b - 1, 1) in SetGoalB
\* and writes the goal it changed; in Normal and ShowDeficit neither event
\* changes a goal or writes storage.
C13_GoalAdjustment ==
    [][(Session /\ ev'.type \in {"light_up", "alarm_up"})
       => ( /\ (ev'.type = "light_up" /\ mode = "MODE_SET_A")
               => ( /\ goal_a' = Min(goal_a + 1, 999) /\ goal_b' = goal_b
                    /\ writes' = << <<4, goal_a'>> >> /\ Stored(4)' = goal_a' )
            /\ (ev'.type = "alarm_up" /\ mode = "MODE_SET_A")
               => ( /\ goal_a' = Max(goal_a - 1, 1) /\ goal_b' = goal_b
                    /\ writes' = << <<4, goal_a'>> >> /\ Stored(4)' = goal_a' )
            /\ (ev'.type = "alarm_up" /\ mode = "MODE_SET_B")
               => ( /\ goal_b' = Max(goal_b - 1, 1) /\ goal_a' = goal_a
                    /\ writes' = << <<6, goal_b'>> >> /\ Stored(6)' = goal_b' )
            /\ mode \in {"MODE_NORMAL", "MODE_SHOW_GET"}
               => ( /\ goal_a' = goal_a /\ goal_b' = goal_b
                    /\ writes' = <<>> /\ backup' = backup ) )]_vars

\* goal A raised from 998 to its maximum in SetGoalA, and stored
C13_Witness ==
    /\ Session /\ ev.type = "light_up" /\ mode = "MODE_SET_A"
    /\ goal_a = 999 /\ writes = << <<4, 999>> >> /\ Stored(4) = 999
    /\ n_events >= 2

\* every field of the session but the mode, and the storage
but_mode ==
    <<tally_a, tally_b, goal_a, goal_b, hold_sec_a, hold_sec_b,
      action_done_a, action_done_b, ms_clock, last_tap_ms, tap_count,
      last_gesture_ms, get_sec_remaining, context, backup>>

\* C14: a MODE button-up event in SetGoalA or SetGoalB sets the mode to Normal,
\* changes nothing else and returns true; in Normal or ShowDeficit it changes
\* no state and returns false; every other event type returns true whenever a
\* session exists.
C14_ModeButton ==
    [][(Session /\ ev'.type # "setup")
       => ( /\ (ev'.type = "mode_up" /\ mode \in {"MODE_SET_A", "MODE_SET_B"})
               => ( /\ mode' = "MODE_NORMAL" /\ ret' = TRUE
                    /\ UNCHANGED but_mode /\ writes' = <<>> )
            /\ (ev'.type = "mode_up" /\ mode \in {"MODE_NORMAL", "MODE_SHOW_GET"})
               => ( /\ ret' = FALSE /\ mode' = mode
                    /\ UNCHANGED but_mode /\ writes' = <<>> )
            /\ ev'.type # "mode_up" => ret' = TRUE )]_vars

\* the MODE button pressed on the goal B screen: back to Normal, face kept
C14_Witness ==
    /\ Session /\ ev.type = "mode_up" /\ ret = TRUE /\ mode = "MODE_NORMAL"
    /\ display.top = "SET B"

\* the screen a mode puts on the top line, for the tallies, goals and date given
TopOf(m, date) ==
    CASE m = "MODE_SET_A" -> "SET A"
      [] m = "MODE_SET_B" -> "SET B"
      [] m = "MODE_SHOW_GET" -> IF Behind(goal_a, tally_a, date) THEN "GET A"
                                ELSE IF Behind(goal_b, tally_b, date) THEN "GET B"
                                ELSE "TALLY"
      [] OTHER -> "TALLY"

\* C15: within one whole-second tick the phases run in the order hold, gesture,
\* countdown, render: the deficit check of a gesture handler uses the tally as
\* the hold phase of the same tick left it, the mode the tick ends with is the
\* mode its gesture phase left with the countdown step applied, and the screen
\* the tick renders is the one of that mode.
C15_PhaseOrder ==
    AfterTick =>
        /\ fired = <<"single">> => (EnteredShow <=> Behind(goal_a, tally_a, ev.date))
        /\ fired = <<"double">> => (EnteredShow <=> Behind(goal_b, tally_b, ev.date))
        /\ mode = IF gest.mode = "MODE_SHOW_GET" /\ gest.get_sec_remaining <= 1
                  THEN "MODE_NORMAL" ELSE gest.mode
        /\ get_sec_remaining = IF gest.mode = "MODE_SHOW_GET"
                               THEN Max(gest.get_sec_remaining - 1, 0)
                               ELSE gest.get_sec_remaining
        /\ display.top = TopOf(mode, ev.date)

\* the second tick of an ALARM hold raises tally B from 1 to 2, which closes
\* B's deficit (goal 4, day 10 of 30), and the double tap of that same tick
\* finds no deficit: the tick renders the Normal screen
C15_Witness ==
    /\ AfterTick /\ fired = <<"double">> /\ ev.alarm
    /\ hold_sec_b = 2 /\ run_b.start = 1 /\ run_b.acts = << <<"inc", 2>> >>
    /\ tally_b = 2 /\ goal_b = 4
    /\ gest.mode_before = "MODE_NORMAL" /\ ~EnteredShow
    /\ mode = "MODE_NORMAL" /\ display.top = "TALLY"

\* C16: a setup whose allocation fails leaves the context NULL and writes no
\* storage byte; every event handled while the context is NULL returns false
\* and changes neither state nor storage; a setup that finds a context neither
\* allocates nor loads again: the session stays as it was.
C16_NoSessionNoEffect ==
    [][ /\ (ev'.type = "setup" /\ context = NULL /\ ~ev'.malloc_ok)
           => ( /\ context' = NULL /\ backup' = backup /\ writes' = <<>>
                /\ UNCHANGED prog_vars )
        /\ (ev'.type # "setup" /\ context = NULL)
           => ( /\ ret' = FALSE /\ context' = NULL
                /\ backup' = backup /\ writes' = <<>>
                /\ UNCHANGED <<prog_vars, display>> )
        /\ (ev'.type = "setup" /\ context # NULL)
           => ( /\ context' = context /\ backup' = backup /\ writes' = <<>>
                /\ UNCHANGED prog_vars ) ]_vars

\* setup fails again after an event was turned away for lack of a session
C16_Witness ==
    /\ context = NULL /\ ev.type = "setup" /\ ~ev.malloc_ok
    /\ ret = FALSE /\ n_events >= 1 /\ NoSession /\ writes = <<>>
    /\ display.top = "CLEAR"

\* the days after d in its month
LaterDays(date) == (date.d + 1)..days_in_month(date.y, date.m)

\* C17: the deficit max(0, goal * day / days_in_month - actual), days_in_month
\* by the Gregorian leap rule, is never negative, does not increase when actual
\* grows and does not decrease when the day grows within its month, for goals
\* in 1..999, actuals in 0..999 and valid dates.  Stated of the deficit of A
\* that the tick computed and, where it is displayed, put on the screen; the
\* float result is positive where goal * day / days_in_month > actual and 0
\* where it is < actual.
C17_DeficitMonotone ==
    (AfterTick /\ ev.date.ok) =>
        LET def == compute_deficit(goal_a, tally_a, ev.date)
        IN  /\ goal_a \in 1..999 /\ tally_a \in 0..999
            /\ days_in_month(ev.date.y, ev.date.m)
                 = IF ev.date.m # 2 THEN mdays[ev.date.m]
                   ELSE IF ev.date.y \in {2024, 2000} THEN 29 ELSE 28
            /\ def.n >= 0
            /\ Behind(goal_a, tally_a, ev.date) => def.n > 0
            /\ goal_a * ev.date.d < tally_a * days_in_month(ev.date.y, ev.date.m)
               => def.n = 0
            /\ \A t \in (DeficitTallies \cup {tally_a + 1}) :
                  (t > tally_a /\ t <= 999)
                  => F32Le(compute_deficit(goal_a, t, ev.date), def)
            /\ \A d \in LaterDays(ev.date) :
                  F32Le(def, compute_deficit(goal_a, tally_a, [ev.date EXCEPT !.d = d]))
            /\ display.top = "GET A" => display.main = Hundredths(def)

\* goal 999 on 29 February 2024 with a tally of 998: a deficit of 1.00
C17_Witness ==
    /\ AfterTick /\ ev.date = Date(2024, 2, 29)
    /\ goal_a = 999 /\ tally_a = 998
    /\ display = [top |-> "GET A", main |-> 100]

\* the step is a whole-second tick that sees the button released
SeesReleased(pressed) == ev'.type = "tick" /\ ~pressed

\* C18: once a hold action has fired for a button, the button's latch stays
\* true and its tally is not changed again until a whole-second tick sees the
\* button released, and that tick resets hold counter and latch; whatever the
\* length of the hold and whatever other events arrive during it.
C18_LatchedUntilRelease ==
    [][Session =>
         /\ (action_done_a /\ ~SeesReleased(ev'.light))
            => (action_done_a' /\ tally_a' = tally_a)
         /\ (action_done_a /\ SeesReleased(ev'.light))
            => (~action_done_a' /\ hold_sec_a' = 0 /\ tally_a' = tally_a)
         /\ (action_done_b /\ ~SeesReleased(ev'.alarm))
            => (action_done_b' /\ tally_b' = tally_b)
         /\ (action_done_b /\ SeesReleased(ev'.alarm))
            => (~action_done_b' /\ hold_sec_b' = 0 /\ tally_b' = tally_b)]_vars

\* LIGHT held without a break, EVENT_ACTIVATE in between: two increments
C18_Witness ==
    /\ Session /\ ev.type = "tick" /\ ev.light
    /\ run_a.activated /\ ~run_a.released /\ run_a.ticks = 4
    /\ run_a.start = 50 /\ run_a.acts = << <<"inc", 51>>, <<"inc", 52>> >>
    /\ tally_a = 52 /\ action_done_a

gesture_state == <<last_tap_ms, tap_count, last_gesture_ms>>

\* what a whole-second tick makes of a tally, from the hold counter, the latch
\* and the button alone
TallyAfterHold(tally, max, hold_sec, action_done, pressed) ==
    IF pressed /\ ~action_done /\ U8(hold_sec + 1) >= 2
    THEN IF U8(hold_sec + 1) < 5 THEN Min(tally + 1, max) ELSE 0
    ELSE tally

\* C20: LIGHT, ALARM and MODE button-up events change no tally, hold counter,
\* latch, ms_clock or gesture state; EVENT_ACTIVATE changes only the two hold
\* counters and the two latches; no tick changes goal_a or goal_b; a tick with
\* subsecond != 0 changes no state at all; and what a whole-second tick does to
\* hold counter and tally depends on the button, the counter and the latch but
\* not on the mode.
C20_FrameConditions ==
    [][Session =>
         /\ ev'.type \in {"light_up", "alarm_up", "mode_up"}
            => UNCHANGED <<tally_a, tally_b, hold_sec_a, hold_sec_b,
                           action_done_a, action_done_b, ms_clock, gesture_state>>
         /\ ev'.type = "activate"
            => ( /\ hold_sec_a' = 0 /\ hold_sec_b' = 0
                 /\ ~action_done_a' /\ ~action_done_b'
                 /\ UNCHANGED <<mode, get_sec_remaining, gesture_state, ms_clock,
                                tally_a, tally_b, goal_a, goal_b, context, backup>> )
         /\ ev'.type \in {"tick", "subtick"} => UNCHANGED <<goal_a, goal_b>>
         /\ ev'.type = "subtick" => UNCHANGED <<prog_vars, context, backup>>
         /\ ev'.type = "tick"
            => ( /\ hold_sec_a' = IF ev'.light THEN U8(hold_sec_a + 1) ELSE 0
                 /\ hold_sec_b' = IF ev'.alarm THEN U8(hold_sec_b + 1) ELSE 0
                 /\ tally_a' = TallyAfterHold(tally_a, 999, hold_sec_a,
                                              action_done_a, ev'.light)
                 /\ tally_b' = TallyAfterHold(tally_b, 99, hold_sec_b,
                                              action_done_b, ev'.alarm) )]_vars

\* LIGHT held over the ticks that open and show the goal B screen: tally A
\* goes from 50 to 51 as it would on the Normal screen
C20_Witness ==
    /\ AfterTick /\ ev.light /\ gest.mode_before = "MODE_SET_B" /\ mode = "MODE_SET_B"
    /\ hold_sec_a = 2 /\ action_done_a
    /\ run_a.start = 50 /\ run_a.acts = << <<"inc", 51>> >> /\ tally_a = 51
    /\ goal_a = 12 /\ goal_b = 4

=============================================================================
